---------------------------- MODULE Spec2Model ----------------------------
(***************************************************************************)
(* The octant-decomposed N-body engine of src/ps4/fserial.c: 8 MPI ranks,  *)
(* one per octant, each holding a LocalStore (bodies[0..n_body-1]); every  *)
(* step runs ghost exchange, force accumulation with in-place integration, *)
(* and migration.                                                          *)
(*                                                                         *)
(* Numbers.  A C double is a fixed-point integer counting multiples of     *)
(* 1/Res (1.0 is Res); one C expression statement rounds once, toward      *)
(* zero.  Squared lengths are kept exactly, in multiples of 1/Res^2.  NaN  *)
(* is a value of its own: it arises from 0 * inf when two distinct bodies  *)
(* coincide, every comparison with it is false, and it is absorbing.       *)
(*                                                                         *)
(* Ranks.  The ranks share no memory and are separated by blocking         *)
(* collectives, so Spec advances the local code between two collectives    *)
(* on all 8 ranks in one action.                                           *)
(*                                                                         *)
(* Auxiliary state, not in the code: each body carries an id (its index in *)
(* the input) and a copy flag set on the copies written to the ghost send  *)
(* buffer; start and log record what a step's force loop read and did.     *)
(***************************************************************************)
EXTENDS Integers, Sequences, FiniteSets, TLC

\* ------------------------------------------------------------ constants
NP == 8
N_DIM == 3
TIME_INTERVAL == 128
Res == 100
G == Res
CUTOFF_SQR == 25 * Res * Res
EPSILON_NUM == 1
EPSILON_DEN == 1000000
NaN == -1000000000

\* ---------------------------------------------------------------- bounds
MaxN == 3
MaxK == 2
MaxBodies == 3     \* nBodies of the shared-memory variants
NumThreads == 2    \* the threads of their parallel regions
MaxSteps == 2      \* nSteps, the calls of MoveBodies

\* The length of the arrays bodies, sendbuf, recvbuf and exile (50000 in
\* the source), scaled to the populations explored: as in the source it
\* has room for the NP gathered centroids and for every population read,
\* N <= MaxN < MAX_N_BODY.
MAX_N_BODY == NP + MaxN

Units == 0 .. (NP - 1)
Dims == 1 .. N_DIM

octant_dims ==
  << <<-1, -1, -1>>, <<1, -1, -1>>, <<-1, 1, -1>>, <<1, 1, -1>>,
     <<-1, -1, 1>>, <<1, -1, 1>>, <<-1, 1, 1>>, <<1, 1, 1>> >>

\* --------------------------------------------------- double arithmetic
IsNaN(a) == a = NaN

\* a < b and a > b on doubles: false when either side is NaN
FLt(a, b) == ~IsNaN(a) /\ ~IsNaN(b) /\ a < b
FGt(a, b) == ~IsNaN(a) /\ ~IsNaN(b) /\ a > b

FAdd(a, b) == IF IsNaN(a) \/ IsNaN(b) THEN NaN ELSE a + b

\* integer quotient rounded toward zero (d > 0)
TruncDiv(n, d) == IF n >= 0 THEN n \div d ELSE -((-n) \div d)

\* a * b / c rounded toward zero (c > 0, b # 0); when a * b would leave the
\* integer range a is divided first, which keeps the relative error below
\* c * b / Big
Big == 2000 * Res * Res * Res
Mag(a) == IF a < 0 THEN -a ELSE a
MulDiv(a, b, c) ==
  IF Mag(a) <= Big \div Mag(b) THEN TruncDiv(a * b, c) ELSE TruncDiv(a, c) * b

\* a * b on doubles
FMul(a, b) ==
  IF IsNaN(a) \/ IsNaN(b) THEN NaN ELSE IF b = 0 THEN 0 ELSE MulDiv(a, b, Res)

\* a / b on doubles, b >= 0: 0.0 / 0.0 is NaN
FDiv(a, b) ==
  IF IsNaN(a) \/ IsNaN(b) \/ b = 0 THEN NaN ELSE MulDiv(a, Res, b)

RECURSIVE SqrtSearch(_, _, _)
SqrtSearch(n, lo, hi) ==
  IF lo >= hi THEN lo
  ELSE LET mid == (lo + hi + 1) \div 2
       IN IF mid * mid <= n THEN SqrtSearch(n, mid, hi)
          ELSE SqrtSearch(n, lo, mid - 1)

\* floor of the square root of n >= 0
ISqrt(n) == SqrtSearch(n, 0, IF n < 40000 THEN n ELSE 40000)

\* A length beyond Far is replaced by Far before it is squared: Far * Far
\* exceeds CUTOFF_SQR, so no comparison of a squared length with CUTOFF_SQR
\* or EPSILON changes, and a squared length within the cutoff is exact.
Far == 200 * Res
Clamp(d) == IF d > Far THEN Far ELSE IF d < -Far THEN -Far ELSE d
Sqr(d) == Clamp(d) * Clamp(d)

\* (int) of a double given in multiples of 1/Res^2, then abs() on that int
abs(dist) == LET i == TruncDiv(dist, Res * Res) IN IF i < 0 THEN -i ELSE i

\* ------------------------------------------------------------------ Body
MkBody(i, m, xs, vs) == [id |-> i, mass |-> m, x |-> xs, v |-> vs, copy |-> FALSE]

get_octant_rank_lt(dims) ==
  (IF FLt(dims[3], 0) THEN 0 ELSE 4) + (IF FLt(dims[2], 0) THEN 0 ELSE 2)
    + (IF FLt(dims[1], 0) THEN 0 ELSE 1)

get_octant_rank(dims) ==
  (IF FGt(dims[3], 0) THEN 4 ELSE 0) + (IF FGt(dims[2], 0) THEN 2 ELSE 0)
    + (IF FGt(dims[1], 0) THEN 1 ELSE 0)

\* prefix sums of an array of NP counts: displ[j] = count[0] + .. + count[j-1]
RECURSIVE SumTo(_, _)
SumTo(count, j) == IF j = 0 THEN 0 ELSE SumTo(count, j - 1) + count[j - 1]

Displ(count) == [j \in Units |-> SumTo(count, j)]

ZeroCounts == [j \in Units |-> 0]

\* memcpy(&buf[at], &b, sizeof(Body))
Put(buf, at, b) == (at :> b) @@ buf


\* ----------------------------------------------------------------- state
VARIABLES
  pc,          \* where all ranks stand in main
  t,           \* the step counter of the main loop
  N, K, DT,    \* the metadata read from the input and broadcast
  bds,         \* readdata's array of the N bodies in input order (rank 0)
  n_body,      \* n_body[r]: rank r's population
  bodies,      \* bodies[r]: rank r's array, a function from 0-based indices
  n_bodies,    \* rank 0's table of the 8 populations
  send_count, send_displ, recv_count, recv_displ,
  sendbuf, recvbuf,
  exile,       \* exile[r][i]: destination octant of body i, or -1
  centroid,    \* centroid[r]: rank r's last local centroid
  reports,     \* what rank 0 has printed: one entry per call of report
  sum,         \* sum[r]: rank r's running total of the last prefix-sum loop
  start,       \* aux: start[r]: the LocalStore as the force loop found it
  log,         \* aux: log[r]: the calls of compute_force_as_vector on rank r
  rank_pc,     \* rank_pc[r]: the call of main rank r stands in (SpecSync)
  rank_t,      \* rank_t[r]: rank r's own step counter t (SpecSync)
  calls,       \* aux: calls[r]: the collective calls rank r has issued (SpecSync)
  variant,     \* which MoveBodies runs: "nbody2" or "nbody3" (SpecThreads)
  nBodies,     \* MoveBodies' parameter nBodies
  mb_dt,       \* MoveBodies' parameter dt
  mb_pos,      \* mb_pos[i]: the x, y, z of body i
  mb_vel,      \* mb_vel[i]: the vx, vy, vz of body i
  Fxyz,        \* nbody2: Fxyz[i] is <<Fx[i], Fy[i], Fz[i]>>
  region,      \* "off", "loop1", "loop2" or "done": where MoveBodies stands
  taken,       \* the iterations of the current loop handed to a thread
  thr,         \* thr[w]: thread w's pc, its private i and j (nbody3: Fx, Fy, Fz)
  writers,     \* aux: writers[loc]: the threads that have written loc
  mb_pos0,     \* aux: mb_pos as MoveBodies found it
  mb_vel0,     \* aux: mb_vel as MoveBodies found it
  seen,        \* aux: the positions each pair (i, j) was computed from
  mb_step      \* main's step: the number of the call of MoveBodies

vars == <<pc, t, N, K, DT, bds, n_body, bodies, n_bodies, send_count,
          send_displ, recv_count, recv_displ, sendbuf, recvbuf, exile,
          centroid, reports, sum, start, log, rank_pc, rank_t, calls,
          variant, nBodies, mb_dt, mb_pos, mb_vel, Fxyz, region, taken, thr,
          writers, mb_pos0, mb_vel0, seen, mb_step>>

\* The variables only SpecSync moves, one rank at a time.
sync == <<rank_pc, rank_t, calls>>

\* The variables only SpecThreads moves: the state of a call of MoveBodies.
shm == <<variant, nBodies, mb_dt, mb_pos, mb_vel, Fxyz, region, taken, thr,
         writers, mb_pos0, mb_vel0, seen, mb_step>>

\* The LocalStore of rank r as a sequence, in array order.
LocalStore(r) == [i \in 1 .. n_body[r] |-> bodies[r][i - 1]]

\* ---------------------------------------------------------------- inputs
\* The first two bodies of the input range over Templates: x from within
\* 1.0 of the x = 0 plane to beyond the cutoff, on either side of the y = 0
\* plane, at rest or moving by one or two units a step.  Further bodies are
\* bystanders: the third is near the x = 0 plane or crosses the z = 0 plane,
\* any further one is remote from all others.
Xs == {-Res, -(Res \div 2), 0, Res \div 2, Res + Res \div 2, 6 * Res}
YZs == {<<Res, Res>>, <<-Res, Res>>}
Vs == {<<0, 0, 0>>, <<Res, 0, 0>>, <<-Res, -2 * Res, 0>>}

Templates ==
  {[mass |-> Res, x |-> <<x1, yz[1], yz[2]>>, v |-> vs] :
     x1 \in Xs, yz \in YZs, vs \in Vs}

Bystanders ==
  {[mass |-> 2 * Res, x |-> <<-Res, Res, Res>>, v |-> <<0, 0, 0>>],
   [mass |-> 3 * Res, x |-> <<-Res, -Res, -Res>>, v |-> <<0, 0, 3 * Res>>]}

Remote == [mass |-> Res, x |-> <<6 * Res, -6 * Res, -6 * Res>>, v |-> <<0, 0, 0>>]

Inputs(n) ==
  IF n = 0 THEN {<<>>}
  ELSE IF n = 1 THEN {<<a>> : a \in Templates}
  ELSE IF n = 2 THEN {<<a, b>> : a \in Templates, b \in Templates}
  ELSE {[i \in 1 .. n |->
           IF i = 1 THEN a ELSE IF i = 2 THEN b ELSE IF i = 3 THEN c ELSE Remote] :
          a \in Templates, b \in Templates, c \in Bystanders}

EmptyBuf == <<>>

\* MoveBodies is not called.
NoCall ==
  /\ variant = "nbody2"
  /\ nBodies = 0
  /\ mb_dt = 0
  /\ mb_pos = <<>>
  /\ mb_vel = <<>>
  /\ Fxyz = <<>>
  /\ region = "off"
  /\ taken = {}
  /\ thr = <<>>
  /\ writers = <<>>
  /\ mb_pos0 = <<>>
  /\ mb_vel0 = <<>>
  /\ seen = <<>>
  /\ mb_step = 0

\* The 8 ranks before readdata has run.
BlankRanks ==
  /\ pc = "read"
  /\ t = 0
  /\ n_body = [r \in Units |-> 0]
  /\ bodies = [r \in Units |-> EmptyBuf]
  /\ n_bodies = ZeroCounts
  /\ send_count = [r \in Units |-> ZeroCounts]
  /\ send_displ = [r \in Units |-> ZeroCounts]
  /\ recv_count = [r \in Units |-> ZeroCounts]
  /\ recv_displ = [r \in Units |-> ZeroCounts]
  /\ sendbuf = [r \in Units |-> EmptyBuf]
  /\ recvbuf = [r \in Units |-> EmptyBuf]
  /\ exile = [r \in Units |-> EmptyBuf]
  /\ centroid = [r \in Units |-> MkBody(0, 0, <<0, 0, 0>>, <<0, 0, 0>>)]
  /\ reports = <<>>
  /\ sum = [r \in Units |-> 0]
  /\ start = [r \in Units |-> <<>>]
  /\ log = [r \in Units |-> <<>>]
  /\ rank_pc = [r \in Units |-> "readdata"]
  /\ rank_t = [r \in Units |-> 0]
  /\ calls = [r \in Units |-> <<>>]

\* Everything but the input, before readdata has run.
Blank == BlankRanks /\ NoCall

Init ==
  /\ N \in 0 .. MaxN
  /\ K = MaxK
  /\ DT = Res
  /\ \E inp \in Inputs(N) :
       bds = [i \in 1 .. N |-> MkBody(i, inp[i].mass, inp[i].x, inp[i].v)]
  /\ Blank

\* One body anywhere on a grid that has every coordinate on, next to and
\* away from the octant planes.
Grid == {-Res, -1, 0, 1, Res}

InitOctant ==
  /\ N = 1
  /\ K = MaxK
  /\ DT = Res
  /\ \E x1 \in Grid, x2 \in Grid, x3 \in Grid :
       bds = <<MkBody(1, Res, <<x1, x2, x3>>, <<0, 0, 0>>)>>
  /\ Blank

\* ------------------------------------------- readdata and the scatter
\* readdata's counting loop (lines 51-56): send_count[i_oct] += 1 per body
ReadCounts ==
  [o \in Units |->
     Cardinality({i \in 1 .. N : get_octant_rank(bds[i].x) = o})]

\* readdata's placing loop (lines 67-71) from body i on
RECURSIVE ReadPlace(_, _, _)
ReadPlace(i, ptrs, buf) ==
  IF i > N THEN buf
  ELSE LET i_oct == get_octant_rank(bds[i].x)
       IN ReadPlace(i + 1, [ptrs EXCEPT ![i_oct] = @ + 1],
                    Put(buf, ptrs[i_oct], bds[i]))

\* MPI_Scatterv with every rank served from offset 0
Scatterv_fromzero(buf, count, displ, r) == [j \in 0 .. (count[r] - 1) |-> buf[j]]

\* MPI_Scatterv: rank r receives count[r] items from offset displ[r]
Scatterv(buf, count, displ, r) == [j \in 0 .. (count[r] - 1) |-> buf[displ[r] + j]]

\* lines 184-196.  bds and the arrays filled by readdata are rank 0's: what
\* readdata leaves in bodies and send_displ on the other ranks is
\* overwritten before it is read.
ReadDistribute ==
  /\ pc = "read"
  /\ LET cnt == ReadCounts
         dsp == Displ(cnt)
         all == ReadPlace(1, dsp, EmptyBuf)
     IN /\ n_bodies' = cnt
        /\ send_displ' = [send_displ EXCEPT ![0] = dsp]
        /\ n_body' = [r \in Units |-> cnt[r]]
        /\ recvbuf' = [r \in Units |-> Scatterv(all, cnt, dsp, r)]
        /\ bodies' = [r \in Units |->
                        IF r = 0 THEN Scatterv(all, cnt, dsp, r) @@ all
                        ELSE Scatterv(all, cnt, dsp, r)]
  /\ pc' = "top"
  /\ UNCHANGED <<t, N, K, DT, bds, reports, centroid, send_count, recv_count, recv_displ,
                 sendbuf, exile, sum, start, log>>
  /\ UNCHANGED <<sync, shm>>

\* --------------------------------------------------------- ghost exchange
\* line 120: the squared coordinates of the axes whose sign disagrees with
\* octant o, in multiples of 1/Res^2
Disagree(pos, o) ==
  LET term(k) == IF FLt(octant_dims[o + 1][k] * pos[k], 0) THEN Sqr(pos[k]) ELSE 0
  IN term(1) + term(2) + term(3)

\* an int i compared with EPSILON: i < EPSILON_NUM / EPSILON_DEN
IntLtEpsilon(i) == i <= (EPSILON_NUM - 1) \div EPSILON_DEN

\* line 121 without the EPSILON test
TooCloseOrFar_noeps(dist) == dist > CUTOFF_SQR

\* line 121: abs is the int function of stdlib.h, so dist is converted to
\* int before the comparison with EPSILON
TooCloseOrFar(dist) == IntLtEpsilon(abs(dist)) \/ dist > CUTOFF_SQR

\* lines 113-124: transmit[o] for every octant o
shouldSend(pos) ==
  [o \in Units |-> IF TooCloseOrFar(Disagree(pos, o)) THEN 0 ELSE 1]

\* lines 212-217: the ghost send counts of rank r
GhostCounts(r) ==
  [j \in Units |->
     Cardinality({i \in 0 .. (n_body[r] - 1) : shouldSend(bodies[r][i].x)[j] = 1})]

\* lines 229-234: the inner loop over destinations j for body b
RECURSIVE GhostFillBody(_, _, _, _, _)
GhostFillBody(b, transmit, j, ptrs, buf) ==
  IF j = NP THEN [ptrs |-> ptrs, buf |-> buf]
  ELSE IF transmit[j] = 1
       THEN GhostFillBody(b, transmit, j + 1, [ptrs EXCEPT ![j] = @ + 1],
                          Put(buf, ptrs[j], [b EXCEPT !.copy = TRUE]))
       ELSE GhostFillBody(b, transmit, j + 1, ptrs, buf)

\* lines 227-235: the send buffer filling from body i on
RECURSIVE GhostFill(_, _, _, _)
GhostFill(r, i, ptrs, buf) ==
  IF i >= n_body[r] THEN buf
  ELSE LET s == GhostFillBody(bodies[r][i], shouldSend(bodies[r][i].x), 0, ptrs, buf)
       IN GhostFill(r, i + 1, s.ptrs, s.buf)

\* lines 208-235 on every rank
GhostPrepare ==
  /\ pc = "prep"
  /\ \E cnt \in {[r \in Units |-> GhostCounts(r)]} :
        /\ send_count' = cnt
        /\ send_displ' = [r \in Units |-> Displ(cnt[r])]
        /\ sum' = [r \in Units |-> SumTo(cnt[r], NP)]
        /\ sendbuf' = [r \in Units |-> GhostFill(r, 0, Displ(cnt[r]), sendbuf[r])]
  /\ pc' = "ghost_x"
  /\ UNCHANGED <<t, N, K, DT, bds, reports, centroid, n_body, bodies, n_bodies, recv_count,
                 recv_displ, recvbuf, exile, start, log>>
  /\ UNCHANGED <<sync, shm>>

\* MPI_Alltoall of the counts: rank d receives sc[s][d] from every rank s
Alltoall(sc) == [d \in Units |-> [s \in Units |-> sc[s][d]]]

\* MPI_Alltoallv into rank d: from every rank s, sc[s][d] items taken at
\* sdsp[s][d] of s's send buffer and stored at rdsp[d][s] of d's receive buffer
RECURSIVE Alltoallv(_, _, _, _, _, _, _)
Alltoallv(d, s, sb, sc, sdsp, rdsp, rb) ==
  IF s = NP THEN rb
  ELSE Alltoallv(d, s + 1, sb, sc, sdsp, rdsp,
                 [j \in rdsp[s] .. (rdsp[s] + sc[s][d] - 1)
                    |-> sb[s][sdsp[s][d] + (j - rdsp[s])]] @@ rb)

\* lines 238-253 (and 299-313): counts, receive offsets, payload
Exchange ==
  \E rc \in {Alltoall(send_count)} :
   \E rd \in {[d \in Units |-> Displ(rc[d])]} :
     /\ recv_count' = rc
     /\ recv_displ' = rd
     /\ sum' = [d \in Units |-> SumTo(rc[d], NP)]
     /\ recvbuf' = [d \in Units |->
                      Alltoallv(d, 0, sendbuf, send_count, send_displ, rd[d],
                                recvbuf[d])]

\* lines 250-251 with bodies passed as the receive buffer
GhostExchange_intoBodies ==
  /\ pc = "ghost_x"
  /\ \E rc \in {Alltoall(send_count)} :
       \E rd \in {[d \in Units |-> Displ(rc[d])]} :
         /\ recv_count' = rc
         /\ recv_displ' = rd
         /\ sum' = [d \in Units |-> SumTo(rc[d], NP)]
         /\ bodies' = [d \in Units |->
                         Alltoallv(d, 0, sendbuf, send_count, send_displ, rd[d],
                                   bodies[d])]
  /\ pc' = "force"
  /\ UNCHANGED <<t, N, K, DT, bds, reports, centroid, n_body, n_bodies, send_count, send_displ,
                 sendbuf, recvbuf, exile, start, log>>
  /\ UNCHANGED <<sync, shm>>

\* lines 238-253
GhostExchange ==
  /\ pc = "ghost_x"
  /\ Exchange
  /\ pc' = "force"
  /\ UNCHANGED <<t, N, K, DT, bds, reports, centroid, n_body, bodies, n_bodies, send_count,
                 send_displ, sendbuf, exile, start, log>>
  /\ UNCHANGED <<sync, shm>>

\* ------------------------------------------------- force and integration
\* the exact squared separation of two positions, in multiples of 1/Res^2
SepSqr(xa, xb) ==
  IF \E k \in Dims : IsNaN(xa[k]) \/ IsNaN(xb[k]) THEN NaN
  ELSE LET d(k) == xa[k] - xb[k] IN Sqr(d(1)) + Sqr(d(2)) + Sqr(d(3))

\* lines 134-135 for axis k: tmp * (that->x[k] - this->x[k]) with
\* tmp = G * m1 * m2 / pow(r2, 1.5); r2 = 0 gives tmp = inf and inf * 0 = NaN.
\* r2 is in multiples of 1/Res^2, so pow(r2, 1.5) is r2 * sqrt(r2) / Res^3.
Pull(this, that, r2, k) ==
  IF IsNaN(r2) \/ r2 = 0 THEN NaN
  ELSE LET gmd == FMul(FMul(G, this.mass), that.mass) * (that.x[k] - this.x[k])
           p == r2 * ISqrt(r2)
       IN IF r2 >= Res * Res THEN TruncDiv(gmd * Res, p \div Res)
          ELSE TruncDiv(gmd * Res * Res, p)

\* lines 126-136 without the this == that test
compute_force_as_vector_noself(this, that, same, vec) ==
  LET r2 == SepSqr(this.x, that.x)
  IN IF FGt(r2, CUTOFF_SQR) THEN [vec |-> vec, kind |-> "far"]
     ELSE [vec |-> [k \in Dims |-> FAdd(vec[k], Pull(this, that, r2, k))],
           kind |-> "near"]

\* lines 126-136; same is the pointer test this == that; kind says which
\* return was taken
compute_force_as_vector(this, that, same, vec) ==
  IF same THEN [vec |-> vec, kind |-> "self"]
  ELSE LET r2 == SepSqr(this.x, that.x)
       IN IF FGt(r2, CUTOFF_SQR) THEN [vec |-> vec, kind |-> "far"]
          ELSE [vec |-> [k \in Dims |-> FAdd(vec[k], Pull(this, that, r2, k))],
                kind |-> "near"]

\* one call of compute_force_as_vector with its log entry
Call(this, that, same, ghost, acc) ==
  LET c == compute_force_as_vector(this, that, same, acc.F)
  IN [F |-> c.vec,
      log |-> Append(acc.log,
                     [on |-> this.id, from |-> that.id, ghost |-> ghost,
                      kind |-> c.kind, was |-> acc.F, now |-> c.vec])]

\* lines 261-262: the local candidates j, j+1, .. of body i
RECURSIVE LocalForces(_, _, _, _, _)
LocalForces(bods, n, i, j, acc) ==
  IF j >= n THEN acc
  ELSE LocalForces(bods, n, i, j + 1, Call(bods[i], bods[j], i = j, FALSE, acc))

\* lines 264-265: the ghost candidates j, j+1, .. of body i
RECURSIVE GhostForces(_, _, _, _, _)
GhostForces(this, rb, m, j, acc) ==
  IF j >= m THEN acc
  ELSE GhostForces(this, rb, m, j + 1, Call(this, rb[j], FALSE, TRUE, acc))

\* line 268 for one axis: v += F * (DT / 2.0) / mass
Kick(vk, Fk, mass) ==
  IF IsNaN(Fk) \/ mass = 0 THEN NaN ELSE FAdd(vk, MulDiv(Fk, DT, 2 * mass))

\* lines 267-270: the velocity, then the position from the new velocity
Integrate(b, F) ==
  LET v1 == [k \in Dims |-> Kick(b.v[k], F[k], b.mass)]
  IN [b EXCEPT !.v = v1, !.x = [k \in Dims |-> FAdd(b.x[k], FMul(v1[k], DT))]]

\* lines 258-278 from body i on: bods is updated in place
RECURSIVE ForceLoop(_, _, _, _, _, _)
ForceLoop(r, i, bods, sc, ex, lg) ==
  IF i >= n_body[r] THEN [bodies |-> bods, send_count |-> sc, exile |-> ex, log |-> lg]
  ELSE LET zero == [k \in Dims |-> 0]
           a1 == LocalForces(bods, n_body[r], i, 0, [F |-> zero, log |-> lg])
           a2 == GhostForces(bods[i], recvbuf[r], sum[r], 0, a1)
           b1 == Integrate(bods[i], a2.F)
           i_oct == get_octant_rank(b1.x)
       IN ForceLoop(r, i + 1, Put(bods, i, b1),
                    IF i_oct # r THEN [sc EXCEPT ![i_oct] = @ + 1] ELSE sc,
                    Put(ex, i, IF i_oct # r THEN i_oct ELSE -1),
                    a2.log)

\* line 255 left out: the ghost round's counts stay
Flushed_kept(sc) == sc

\* line 255: memset(send_count, 0, ...)
Flushed(sc) == ZeroCounts

\* lines 255-278 on every rank
ForceIntegrate ==
  /\ pc = "force"
  /\ \E res \in {[r \in Units |-> ForceLoop(r, 0, bodies[r], Flushed(send_count[r]),
                                        exile[r], <<>>)]} :
        /\ bodies' = [r \in Units |-> res[r].bodies]
        /\ send_count' = [r \in Units |-> res[r].send_count]
        /\ exile' = [r \in Units |-> res[r].exile]
        /\ log' = [r \in Units |-> res[r].log]
  /\ start' = [r \in Units |-> LocalStore(r)]
  /\ pc' = "migr_prep"
  /\ UNCHANGED <<t, N, K, DT, bds, reports, centroid, n_body, n_bodies, send_displ, recv_count,
                 recv_displ, sendbuf, recvbuf, sum>>
  /\ UNCHANGED <<sync, shm>>

\* ---------------------------------------------------------------- migration
\* lines 291-296: the send buffer filling from body i on
RECURSIVE ExileFill(_, _, _, _)
ExileFill(r, i, ptrs, buf) ==
  IF i >= n_body[r] THEN buf
  ELSE IF exile[r][i] < 0 THEN ExileFill(r, i + 1, ptrs, buf)
       ELSE ExileFill(r, i + 1, [ptrs EXCEPT ![exile[r][i]] = @ + 1],
                      Put(buf, ptrs[exile[r][i]], bodies[r][i]))

\* lines 280-296 on every rank
MigratePrepare ==
  /\ pc = "migr_prep"
  /\ send_displ' = [r \in Units |-> Displ(send_count[r])]
  /\ sum' = [r \in Units |-> SumTo(send_count[r], NP)]
  /\ sendbuf' = [r \in Units |-> ExileFill(r, 0, Displ(send_count[r]), sendbuf[r])]
  /\ pc' = "migr_x"
  /\ UNCHANGED <<t, N, K, DT, bds, reports, centroid, n_body, bodies, n_bodies, send_count,
                 recv_count, recv_displ, recvbuf, exile, start, log>>
  /\ UNCHANGED <<sync, shm>>

\* lines 299-313
MigrationExchange ==
  /\ pc = "migr_x"
  /\ Exchange
  /\ pc' = "merge"
  /\ UNCHANGED <<t, N, K, DT, bds, reports, centroid, n_body, bodies, n_bodies, send_count,
                 send_displ, sendbuf, exile, start, log>>
  /\ UNCHANGED <<sync, shm>>

\* line 318 without the test: every body is kept
Stays_all(r, j) == TRUE

\* line 318: body j was not marked for export
Stays(r, j) == exile[r][j] < 0

\* lines 317-322 from body j on: the retained bodies go behind the received
RECURSIVE Retain(_, _, _, _)
Retain(r, j, i, rb) ==
  IF j >= n_body[r] THEN [i |-> i, recvbuf |-> rb]
  ELSE IF Stays(r, j) THEN Retain(r, j + 1, i + 1, Put(rb, i, bodies[r][j]))
       ELSE Retain(r, j + 1, i, rb)

\* line 316 with i = 0
MergeFrom_zero(r) == 0

\* line 316: i = sum
MergeFrom(r) == sum[r]

\* lines 315-325 on every rank, and the loop's ++ t
Merge ==
  /\ pc = "merge"
  /\ \E res \in {[r \in Units |-> Retain(r, 0, MergeFrom(r), recvbuf[r])]} :
        /\ recvbuf' = [r \in Units |-> res[r].recvbuf]
        /\ bodies' = [r \in Units |->
                        [j \in 0 .. (res[r].i - 1) |-> res[r].recvbuf[j]] @@ bodies[r]]
        /\ n_body' = [r \in Units |-> res[r].i]
  /\ t' = t + 1
  /\ pc' = "top"
  /\ UNCHANGED <<N, K, DT, bds, reports, centroid, n_bodies, send_count, send_displ, recv_count,
                 recv_displ, sendbuf, exile, sum, start, log>>
  /\ UNCHANGED <<sync, shm>>

\* ------------------------------------------------------------- main loop
ALL_ONES == [j \in Units |-> 1]

\* lines 84-91 from body i on: the running sums of get_centroid
RECURSIVE CentroidSums(_, _, _, _, _)
CentroidSums(n, weights, bods, i, acc) ==
  IF i >= n THEN acc
  ELSE LET b == bods[i]
           w == weights[i % NP]
       IN CentroidSums(n, weights, bods, i + 1,
            [sum_n_body |-> acc.sum_n_body + w,
             mass |-> FAdd(acc.mass, b.mass),
             x |-> [k \in Dims |-> FAdd(acc.x[k], FMul(b.x[k], b.mass))],
             v |-> [k \in Dims |-> FAdd(acc.v[k], FMul(b.v[k], w * Res))]])

\* lines 74-98: bods[i] stands for weights[i % NP] bodies
get_centroid(n, weights, bods) ==
  LET zero == [k \in Dims |-> 0]
      s == CentroidSums(n, weights, bods, 0,
                        [sum_n_body |-> 0, mass |-> 0, x |-> zero, v |-> zero])
  IN IF n = 0 THEN MkBody(0, 0, zero, zero)
     ELSE MkBody(0, s.mass, [k \in Dims |-> FDiv(s.x[k], s.mass)],
                 [k \in Dims |-> FDiv(s.v[k], s.sum_n_body * Res)])

\* lines 202 and 330 on every rank
LocalCentroids == [r \in Units |-> get_centroid(n_body[r], ALL_ONES, bodies[r])]

\* MPI_Gather that hands rank 0 a count of 1 for every rank
Gather_ones == [r \in Units |-> 1]

\* MPI_Gather of n_body into rank 0's n_bodies
Gather == [r \in Units |-> n_body[r]]

\* lines 100-110: what report prints, the global centroid among it
report(tt, dt, counts, centroids) ==
  LET c == get_centroid(NP, counts, centroids)
  IN [t |-> tt, time |-> tt * dt, x |-> c.x, v |-> c.v, n_bodies |-> counts]

\* line 201 with a test that always passes
ReportDue_always(tt) == TRUE

\* line 201: whether the loop reports before step tt
ReportDue(tt) == tt % TIME_INTERVAL = 0

\* lines 200-206: the loop test, the periodic gathers of the populations
\* and of the local centroids, the latter into rank 0's recvbuf[0..7], and
\* rank 0's report
LoopTop ==
  /\ pc = "top"
  /\ t < K
  /\ IF ReportDue(t)
       THEN /\ centroid' = LocalCentroids
            /\ n_bodies' = Gather
            /\ recvbuf' = [recvbuf EXCEPT ![0] = LocalCentroids @@ @]
            /\ reports' = Append(reports, report(t, DT, Gather, LocalCentroids))
       ELSE UNCHANGED <<centroid, n_bodies, recvbuf, reports>>
  /\ pc' = "prep"
  /\ UNCHANGED <<t, N, K, DT, bds, n_body, bodies, send_count, send_displ,
                 recv_count, recv_displ, sendbuf, exile, sum, start, log>>
  /\ UNCHANGED <<sync, shm>>

\* lines 327-339: the final gathers and rank 0's report
Finish ==
  /\ pc = "top"
  /\ t >= K
  /\ centroid' = LocalCentroids
  /\ n_bodies' = Gather
  /\ recvbuf' = [recvbuf EXCEPT ![0] = LocalCentroids @@ @]
  /\ reports' = Append(reports, report(t, DT, Gather, LocalCentroids))
  /\ pc' = "done"
  /\ UNCHANGED <<t, N, K, DT, bds, n_body, bodies, send_count, send_displ,
                 recv_count, recv_displ, sendbuf, exile, sum, start, log>>
  /\ UNCHANGED <<sync, shm>>

Next ==
  \/ ReadDistribute
  \/ LoopTop
  \/ GhostPrepare
  \/ GhostExchange
  \/ ForceIntegrate
  \/ MigratePrepare
  \/ MigrationExchange
  \/ Merge
  \/ Finish

Spec == Init /\ [][Next]_vars

\* The runs of one body placed on Grid.
SpecOctant == InitOctant /\ [][Next]_vars

\* Long runs of two bodies: one drifts along x and changes octant in step
\* 101, one rests far from it.  K is around one and around Periods report
\* intervals.
Periods == 2

LongKs ==
  {0, 1, TIME_INTERVAL - 1, TIME_INTERVAL, TIME_INTERVAL + 1,
   Periods * TIME_INTERVAL, Periods * TIME_INTERVAL + 1}

InitLong ==
  /\ N = 2
  /\ K \in LongKs
  /\ DT = Res
  /\ bds = <<MkBody(1, Res, <<-100 * Res, -Res, Res>>, <<Res, 0, 0>>),
             MkBody(2, 2 * Res, <<6 * Res, -6 * Res, -6 * Res>>, <<0, 0, 0>>)>>
  /\ Blank

SpecLong == InitLong /\ [][Next]_vars

\* ================================================================ claims
\* The state right after the migration phase of step t - 1.
AfterMigration == pc = "top" /\ t > 0

\* The bodies of rank r's LocalStore, as a set.
StoreSet(r) == {bodies[r][i] : i \in 0 .. (n_body[r] - 1)}

\* C1: immediately after the migration phase of every step, the populations
\* n_body of the 8 ranks sum to the loaded body count N.
C1_PopulationIsN == AfterMigration => SumTo(n_body, NP) = N

\* C1's case: a migration round in which some rank received a body.
C1_Witness == AfterMigration /\ N >= 2 /\ \E r \in Units : sum[r] > 0

\* C2: immediately after the migration phase of every step, every body in
\* rank r's bodies[0..n_body-1] has get_octant_rank(position) = r.
C2_OwnerIsOctant ==
  AfterMigration =>
    \A r \in Units : \A i \in 0 .. (n_body[r] - 1) :
      get_octant_rank(bodies[r][i].x) = r

\* C2's case: after a migration, a rank holds a body it received beside one
\* it kept.
C2_Witness ==
  AfterMigration /\ \E r \in Units : sum[r] > 0 /\ n_body[r] > sum[r]

\* The bodies rank s holds whose position classifies to octant d.
Classified(s, d) == {b \in StoreSet(s) : get_octant_rank(b.x) = d}

\* The occupied slots <<r, i>> of all LocalStores.
Held == UNION {{<<r, i>> : i \in 0 .. (n_body[r] - 1)} : r \in Units}

\* How many held bodies have mass m: the global multiset of mass values.
MassCount(m) == Cardinality({h \in Held : bodies[h[1]][h[2]].mass = m})

\* How many slots hold the body with this id.
Copies(id) == Cardinality({h \in Held : bodies[h[1]][h[2]].id = id})

\* C3: in one migration round every rank's new LocalStore is exactly the
\* bodies it kept (their new position classifies to it) together with the
\* bodies the other ranks exported to it, each once; every body is held
\* exactly once afterwards, and the multiset of mass values is preserved.
C3_MigrationMovesEachBodyOnce ==
  [][pc = "merge" =>
       /\ \A d \in Units :
            /\ StoreSet(d)' = UNION {Classified(s, d) : s \in Units}
            /\ n_body'[d] = Cardinality(UNION {Classified(s, d) : s \in Units})
       /\ \A i \in 1 .. N : Copies(i) = 1 /\ Copies(i)' = 1
       /\ \A i \in 1 .. N : MassCount(bds[i].mass)' = MassCount(bds[i].mass)]_vars

\* C3's case: a round in which a rank exported a body and the receiving rank
\* also kept one of its own.
C3_Witness ==
  /\ AfterMigration
  /\ \E s \in Units, d \in Units :
       send_count[s][d] > 0 /\ recv_count[d][s] > 0 /\ n_body[d] > sum[d]

\* C4: a ghost exchange leaves every LocalStore (population and bodies)
\* unchanged; no ghost copy is exported by the following migration and none
\* is in a LocalStore once that migration has run.
C4_GhostsNeverOwned ==
  [][/\ pc \in {"prep", "ghost_x"} =>
          \A r \in Units : n_body'[r] = n_body[r] /\ LocalStore(r)' = LocalStore(r)
     /\ pc = "migr_prep" =>
          \A r \in Units : \A j \in 0 .. (sum'[r] - 1) : ~sendbuf'[r][j].copy
     /\ pc = "merge" =>
          \A r \in Units : \A i \in 0 .. (n_body'[r] - 1) : ~bodies'[r][i].copy]_vars

\* C4's case: a step in which a rank used a ghost in its force loop and a
\* rank received a migrating body, seen after the migration.
C4_Witness ==
  /\ AfterMigration
  /\ \E r \in Units : \E k \in 1 .. Len(log[r]) : log[r][k].ghost
  /\ \E r \in Units : sum[r] > 0 /\ n_body[r] > 0

\* The ids of the ghosts rank r holds: recvbuf[0..sum-1] between the ghost
\* exchange and the migration exchange.
GhostIds(r) == {recvbuf[r][j].id : j \in 0 .. (sum[r] - 1)}

\* Two positions within the interaction cutoff: r^2 <= CUTOFF_SQR.
WithinCutoff(xa, xb) ==
  ~IsNaN(SepSqr(xa, xb)) /\ SepSqr(xa, xb) <= CUTOFF_SQR

\* C5: for every pair of bodies owned by two different ranks and within the
\* cutoff of each other at ghost-exchange time, each body is in the GhostSet
\* of the other body's rank during the force phase.
C5_NoFalseNegatives ==
  pc = "force" =>
    \A r1 \in Units, r2 \in Units :
      r1 # r2 =>
        \A i \in 0 .. (n_body[r1] - 1), j \in 0 .. (n_body[r2] - 1) :
          WithinCutoff(bodies[r1][i].x, bodies[r2][j].x) =>
            /\ bodies[r1][i].id \in GhostIds(r2)
            /\ bodies[r2][j].id \in GhostIds(r1)

\* The body with this id as the force loops of the step found it.
StartOf(id) ==
  CHOOSE b \in UNION {{start[r][i] : i \in 1 .. Len(start[r])} : r \in Units} : b.id = id

\* C6: two bodies separated by more than the cutoff distance at a step
\* contribute exactly zero force to each other in that step, on one rank
\* or across two.
C6_ZeroBeyondCutoff ==
  pc = "migr_prep" =>
    \A r \in Units : \A k \in 1 .. Len(log[r]) :
      (/\ log[r][k].on # log[r][k].from
       /\ FGt(SepSqr(StartOf(log[r][k].on).x, StartOf(log[r][k].from).x), CUTOFF_SQR))
        => log[r][k].now = log[r][k].was

\* The calls of rank r's force loop made for the body with this id, in order.
CallsOn(r, id) == SelectSeq(log[r], LAMBDA e : e.on = id)

\* Those of the calls that went past the this == that test: the visits.
LocalVisits(r, id) == SelectSeq(CallsOn(r, id), LAMBDA e : ~e.ghost /\ e.kind # "self")
GhostVisits(r, id) == SelectSeq(CallsOn(r, id), LAMBDA e : e.ghost /\ e.kind # "self")

StartIds(r) == {start[r][i].id : i \in 1 .. Len(start[r])}

\* C7: for every local body i the force accumulation visits each other
\* local body once, each ghost once and body i itself never; no rank holds a
\* ghost copy of a body it owns, and no body is twice in one GhostSet.
C7_EachCandidateOnce ==
  pc = "migr_prep" =>
    \A r \in Units :
      /\ \A i \in 1 .. Len(start[r]) :
           LET me == start[r][i].id
               lv == LocalVisits(r, me)
               gv == GhostVisits(r, me)
           IN /\ Len(lv) = Len(start[r]) - 1
              /\ {lv[k].from : k \in 1 .. Len(lv)} = StartIds(r) \ {me}
              /\ Len(gv) = sum[r]
              /\ \A k \in 1 .. Len(gv) : gv[k].from = recvbuf[r][k - 1].id
              /\ \A k \in 1 .. Len(CallsOn(r, me)) :
                   CallsOn(r, me)[k].kind # "self" => CallsOn(r, me)[k].from # me
      /\ GhostIds(r) \cap StartIds(r) = {}
      /\ Cardinality(GhostIds(r)) = sum[r]

\* C7's case: a rank with two local bodies and at least one ghost.
C7_Witness ==
  pc = "migr_prep" /\ \E r \in Units : Len(start[r]) >= 2 /\ sum[r] >= 1

\* The only body of a one-body system, before and after the force loop.
OnlyRank == CHOOSE r \in Units : Len(start[r]) = 1
Before == start[OnlyRank][1]
After == bodies[OnlyRank][0]

\* C8 as stated: a single body with no neighbours has, after one step,
\* exactly the velocity and the position it had before.
C8_SingleBodyUnchanged ==
  (N = 1 /\ pc = "migr_prep") => After.v = Before.v /\ After.x = Before.x

\* C8 as amended: a single body with no neighbours keeps exactly its
\* velocity (zero accumulated force, no NaN) and its position advances by
\* velocity * DT, so the position is unchanged exactly when the velocity is 0.
C8_SingleBodyDrifts ==
  (N = 1 /\ pc = "migr_prep") =>
    /\ After.v = Before.v
    /\ \A k \in Dims : ~IsNaN(After.x[k]) /\ ~IsNaN(After.v[k])
    /\ \A k \in Dims : After.x[k] = Before.x[k] + FMul(Before.v[k], DT)
    /\ \A k \in Dims : After.x[k] = Before.x[k] <=> Before.v[k] = 0

\* C8's case: the single body has been through a step while moving.
C8_Witness ==
  N = 1 /\ pc = "migr_prep" /\ \E k \in Dims : Before.v[k] # 0

\* The force accumulated on the body with this id in the step's force loop.
ForceOn(id) ==
  LET r == CHOOSE q \in Units : id \in StartIds(q)
      c == CallsOn(r, id)
  IN c[Len(c)].now

\* Two bodies at unit separation along one axis, equal on the other two.
UnitApart(xa, xb) ==
  \E k \in Dims :
    /\ xb[k] - xa[k] \in {Res, -Res}
    /\ \A m \in Dims \ {k} : xa[m] = xb[m]

\* C9: for two bodies of mass 1 at unit separation along one axis (G = 1,
\* both at rest), the forces accumulated on them in one step are equal in
\* magnitude and opposite in direction, each pointing toward the other
\* body, in one octant or across an octant boundary.
C9_EqualAndOpposite ==
  (/\ N = 2 /\ pc = "migr_prep" /\ t = 0
   /\ bds[1].mass = Res /\ bds[2].mass = Res
   /\ bds[1].v = <<0, 0, 0>> /\ bds[2].v = <<0, 0, 0>>
   /\ UnitApart(bds[1].x, bds[2].x))
    => \A k \in Dims :
         /\ ForceOn(1)[k] = -ForceOn(2)[k]
         /\ bds[2].x[k] > bds[1].x[k] => ForceOn(1)[k] > 0
         /\ bds[2].x[k] < bds[1].x[k] => ForceOn(1)[k] < 0
         /\ bds[2].x[k] = bds[1].x[k] => ForceOn(1)[k] = 0

\* The position of the first input body, and the table row a position
\* selects when a zero coordinate takes the sign -1.
Probe == bds[1].x
Bit(p) == IF p THEN 1 ELSE 0
SignRow(x) == [k \in Dims |-> IF x[k] > 0 THEN 1 ELSE -1]

\* C10 as stated: the result is 4*[z>0] + 2*[y>0] + [x>0] in 0..7, and for
\* every octant o whose signs the NONZERO coordinates of the position have,
\* the result is o; the body has exactly one owner.
C10_AgreesOnNonzero ==
  (N = 1 /\ pc = "top" /\ t = 0) =>
    /\ get_octant_rank(Probe) \in Units
    /\ get_octant_rank(Probe)
         = 4 * Bit(Probe[3] > 0) + 2 * Bit(Probe[2] > 0) + Bit(Probe[1] > 0)
    /\ \A o \in Units :
         (\A k \in Dims : Probe[k] # 0 => octant_dims[o + 1][k] = SignRow(Probe)[k])
           => get_octant_rank(Probe) = o
    /\ \A r \in Units : n_body[r] = Bit(r = get_octant_rank(Probe))

\* C10 as amended: the result is 4*[z>0] + 2*[y>0] + [x>0] in 0..7 with a
\* zero coordinate on the negative side; it is the one octant whose
\* octant_dims row is 1 where the coordinate is positive and -1 where it is
\* zero or negative; the body has exactly one owner, that octant.
C10_AgreesZeroNegative ==
  (N = 1 /\ pc = "top" /\ t = 0) =>
    /\ get_octant_rank(Probe) \in Units
    /\ get_octant_rank(Probe)
         = 4 * Bit(Probe[3] > 0) + 2 * Bit(Probe[2] > 0) + Bit(Probe[1] > 0)
    /\ \A o \in Units :
         octant_dims[o + 1] = SignRow(Probe) <=> get_octant_rank(Probe) = o
    /\ \A r \in Units : n_body[r] = Bit(r = get_octant_rank(Probe))

\* C10's case: a body with a coordinate exactly 0 has been distributed.
C10_Witness ==
  /\ N = 1 /\ pc = "top" /\ t = 0
  /\ \E k \in Dims : Probe[k] = 0
  /\ n_body[get_octant_rank(Probe)] = 1

\* ===================================================== one rank at a time
\* SpecSync follows each of the 8 processes through the collective calls of
\* main.  rank_pc[r] names the call rank r stands in (it has issued the call
\* and not yet returned); one step of rank r returns from that call, runs the
\* local code up to the next call and issues it.  The payloads are those of
\* Spec and are left out here.

\* The input of SpecSync: one body, which leaves seven LocalStores empty.
InitSync ==
  /\ N = 1
  /\ K = MaxK
  /\ DT = Res
  /\ bds = <<MkBody(1, Res, <<-Res, -Res, Res>>, <<Res, 0, 0>>)>>
  /\ Blank

\* lines 200-201 and 329-332: the call that follows the loop test for step
\* counter tk
LoopEntry(tk) ==
  IF tk < K THEN (IF ReportDue(tk) THEN "Gather203" ELSE "Barrier238")
  ELSE "Gather331"

\* The next collective call in program order after the one at p, for step
\* counter tk; the label carries the line of the call.  "Bcast" stands for
\* lines 187-193 (three MPI_Bcast, MPI_Scatter, MPI_Scatterv, all rooted at
\* rank 0), "Gather203" for lines 203-204 and "Gather331" for lines 331-332.
Follows(p, tk) ==
  CASE p = "readdata" -> "Bcast"
    [] p = "Bcast" -> "Barrier195"
    [] p = "Barrier195" -> LoopEntry(tk)
    [] p = "Gather203" -> "Barrier238"
    [] p = "Barrier238" -> "Alltoall239"
    [] p = "Alltoall239" -> "Barrier240"
    [] p = "Barrier240" -> "Alltoallv250"
    [] p = "Alltoallv250" -> "Barrier253"
    [] p = "Barrier253" -> "Barrier299"
    [] p = "Barrier299" -> "Alltoall300"
    [] p = "Alltoall300" -> "Barrier301"
    [] p = "Barrier301" -> "Alltoallv311"
    [] p = "Alltoallv311" -> "Barrier313"
    [] p = "Barrier313" -> LoopEntry(tk + 1)
    [] p = "Gather331" -> "done"

\* The MPI calls a label stands for, in order.
CallsOf(p) ==
  CASE p = "Bcast" -> <<"Bcast", "Bcast", "Bcast", "Scatter", "Scatterv">>
    [] p \in {"Gather203", "Gather331"} -> <<"Gather", "Gather">>
    [] p \in {"Barrier195", "Barrier238", "Barrier240", "Barrier253",
              "Barrier299", "Barrier301", "Barrier313"} -> <<"Barrier">>
    [] p \in {"Alltoall239", "Alltoall300"} -> <<"Alltoall">>
    [] p \in {"Alltoallv250", "Alltoallv311"} -> <<"Alltoallv">>
    [] OTHER -> <<>>

\* The arrays the local code writes between the return from the call at p
\* and the next call.
LocalWrites(p, tk) ==
  LET prepare == {"send_count", "send_displ", "sendbuf"}   \* lines 209-235
  IN CASE p = "readdata" -> {"bodies", "n_bodies", "send_displ"}
       [] p = "Bcast" -> {}
       [] p = "Barrier195" ->
            {"bodies"} \cup (IF LoopEntry(tk) = "Barrier238" THEN prepare ELSE {})
       [] p = "Gather203" -> prepare
       [] p \in {"Barrier240", "Barrier301"} -> {"recv_displ"}
       [] p = "Barrier253" ->
            {"send_count", "bodies", "exile", "send_displ", "sendbuf"}
       [] p = "Barrier313" ->
            {"recvbuf", "bodies"}
              \cup (IF LoopEntry(tk + 1) = "Barrier238" THEN prepare ELSE {})
       [] OTHER -> {}

\* Rank s has issued its n-th collective call and it is of this kind: MPI
\* matches the calls of a communicator by their order.
Entered(s, n, kind) == Len(calls[s]) >= n /\ calls[s][n] = kind

\* MayReturn with barriers that hold nobody.
MayReturn_nobarrier(r) ==
  LET n == Len(calls[r])
      kind == calls[r][n]
  IN CASE kind = "Barrier" -> TRUE
       [] kind = "Alltoall" -> \A s \in Units : Entered(s, n, kind)
       [] kind \in {"Bcast", "Scatter", "Scatterv"} -> Entered(0, n, kind)
       [] kind = "Gather" -> r # 0 \/ \A s \in Units : Entered(s, n, kind)
       [] kind = "Alltoallv" -> TRUE

\* Whether the call rank r stands in may return.  A barrier returns when all
\* ranks have entered it; MPI_Alltoall of one int per rank needs the int of
\* every rank; a call rooted at 0 that sends needs the root, one that
\* gathers holds only the root; MPI_Alltoallv needs no rank it receives
\* nothing from, so nothing is assumed of it.
MayReturn(r) ==
  LET n == Len(calls[r])
      kind == calls[r][n]
  IN CASE kind \in {"Barrier", "Alltoall"} -> \A s \in Units : Entered(s, n, kind)
       [] kind \in {"Bcast", "Scatter", "Scatterv"} -> Entered(0, n, kind)
       [] kind = "Gather" -> r # 0 \/ \A s \in Units : Entered(s, n, kind)
       [] kind = "Alltoallv" -> TRUE

\* Rank r moves on as if a rank that holds no bodies left out the ghost round.
Advance_emptyskips(r, p) ==
  LET f == Follows(p, rank_t[r])
      q == IF n_body[r] = 0 /\ f = "Barrier238" THEN "Barrier299" ELSE f
  IN /\ rank_pc' = [rank_pc EXCEPT ![r] = q]
     /\ calls' = [calls EXCEPT ![r] = @ \o CallsOf(q)]
     /\ rank_t' = [rank_t EXCEPT ![r] = IF p = "Barrier313" THEN @ + 1 ELSE @]
     /\ n_body' = [n_body EXCEPT ![r] = IF p = "Bcast" THEN ReadCounts[r] ELSE @]

\* Rank r moves from the call at p to the next one.
Advance(r, p) ==
  LET q == Follows(p, rank_t[r])
  IN /\ rank_pc' = [rank_pc EXCEPT ![r] = q]
     /\ calls' = [calls EXCEPT ![r] = @ \o CallsOf(q)]
     /\ rank_t' = [rank_t EXCEPT ![r] = IF p = "Barrier313" THEN @ + 1 ELSE @]
     /\ n_body' = [n_body EXCEPT ![r] = IF p = "Bcast" THEN ReadCounts[r] ELSE @]

\* Everything SpecSync leaves alone.
payload == <<pc, t, N, K, DT, bds, bodies, n_bodies, send_count, send_displ,
             recv_count, recv_displ, sendbuf, recvbuf, exile, centroid,
             reports, sum, start, log, shm>>

\* line 184 on rank r, the input at hand
Readdata(r) ==
  /\ rank_pc[r] = "readdata"
  /\ Advance(r, "readdata")
  /\ UNCHANGED payload

\* line 184 on a rank other than 0 whose stdin holds no tokens: scanf leaves
\* N uninitialized (line 47), the loops of lines 50-71 run N times and, for
\* N > MAX_N_BODY, write past bds and bodies: the process may die there
ReaddataCrash(r) ==
  /\ r # 0
  /\ rank_pc[r] = "readdata"
  /\ rank_pc' = [rank_pc EXCEPT ![r] = "crashed"]
  /\ UNCHANGED <<payload, n_body, rank_t, calls>>

\* rank r returns from the collective call it stands in and goes on
Return(r) ==
  /\ rank_pc[r] \notin {"readdata", "crashed", "done"}
  /\ MayReturn(r)
  /\ Advance(r, rank_pc[r])
  /\ UNCHANGED payload

NextSync ==
  \E r \in Units : Readdata(r) \/ ReaddataCrash(r) \/ Return(r)

SpecSync == InitSync /\ [][NextSync]_vars

\* Every MPI process is a process of its own with a processor to run on: a
\* rank that can read its input or return from its call eventually does.
SpecSyncFair ==
  InitSync /\ [][NextSync]_vars
    /\ \A r \in Units : WF_vars(Readdata(r) \/ Return(r))

\* ------------------------------------------------------- claims, SpecSync
\* The count exchanges and payload transfers of the two rounds.
Exchanges == {"Alltoall239", "Alltoallv250", "Alltoall300", "Alltoallv311"}

\* The arrays an exchange sends from or receives into.
Buffers == {"send_count", "recv_count", "sendbuf", "recvbuf"}

\* In rank r's call sequence every count exchange comes right after a
\* barrier and every payload transfer is followed by one, with one barrier
\* between the two.
BarriersAround(r) ==
  \A n \in 1 .. Len(calls[r]) :
    /\ calls[r][n] = "Alltoall" =>
         /\ n > 1 /\ calls[r][n - 1] = "Barrier"
         /\ n + 1 <= Len(calls[r]) => calls[r][n + 1] = "Barrier"
         /\ n + 2 <= Len(calls[r]) => calls[r][n + 2] = "Alltoallv"
    /\ (calls[r][n] = "Alltoallv" /\ n + 1 <= Len(calls[r]))
         => calls[r][n + 1] = "Barrier"

\* Rank r has run local code after its n-th call, an exchange: it has
\* issued a call beyond the barrier that follows the exchange.
ProceededPast(r, n) ==
  calls[r][n] \in {"Alltoall", "Alltoallv"} /\ Len(calls[r]) >= n + 2

\* C11: in every exchange round a barrier is passed before and after the
\* round; no rank proceeds past an exchange before all 8 ranks have reached
\* it; and no rank's local code writes a send or receive buffer while
\* another rank is inside a count exchange or a payload transfer.
C11_BarriersFenceExchanges ==
  /\ [](\A r \in Units :
          /\ BarriersAround(r)
          /\ \A n \in 1 .. Len(calls[r]) :
               ProceededPast(r, n) =>
                 \A s \in Units : Entered(s, n, calls[r][n]))
  /\ [][\A r \in Units :
          (/\ rank_pc'[r] # rank_pc[r]
           /\ LocalWrites(rank_pc[r], rank_t[r]) \cap Buffers # {})
            => \A s \in Units : rank_pc[s] \notin Exchanges]_vars

\* C11's case: a rank has left the migration round of step 0 and written
\* the send arrays of step 1 while another rank still stands in the barrier
\* that closes that round.
C11_Witness ==
  \E r \in Units, s \in Units :
    /\ rank_pc[r] = "Barrier238" /\ rank_t[r] = 1
    /\ rank_pc[s] = "Barrier313" /\ rank_t[s] = 0

\* ------------------------------------------------------- claims, SpecLong
\* How many reports carry step index m.
TimesReported(m) == Cardinality({i \in 1 .. Len(reports) : reports[i].t = m})

\* The last report, and whether it was printed by the step just taken.
LastReport == reports[Len(reports)]
JustReported ==
  pc \in {"prep", "done"} /\ Len(reports) > 0 /\ LastReport.t = t

\* C12: in a run of K steps rank 0 reports index 0, every index that is a
\* multiple of TIME_INTERVAL and the final index K, each exactly once and no
\* other index; the report for index t is printed after exactly t completed
\* steps and carries the populations and the centroid of that moment.
C12_ReportsOnSchedule ==
  /\ pc = "done" =>
       /\ \A i \in 1 .. Len(reports) : reports[i].t \in 0 .. K
       /\ \A m \in 0 .. K :
            TimesReported(m) = IF m % TIME_INTERVAL = 0 \/ m = K THEN 1 ELSE 0
       /\ \A i \in 1 .. (Len(reports) - 1) : reports[i].t < reports[i + 1].t
  /\ JustReported =>
       /\ \A r \in Units : LastReport.n_bodies[r] = n_body[r]
       /\ SumTo(LastReport.n_bodies, NP) = N
       /\ LastReport = report(t, DT, Gather, LocalCentroids)

\* C12's case: a finished run of more than two report intervals, with four
\* reports of which the first two show different populations.
C12_Witness ==
  /\ pc = "done" /\ K = Periods * TIME_INTERVAL + 1
  /\ Len(reports) = Periods + 2
  /\ reports[1].n_bodies # reports[2].n_bodies

\* ----------------------------------------------------------- claims, Spec
\* The value get_centroid returns before any sum or division (line 82).
ZeroCentroid == MkBody(0, 0, <<0, 0, 0>>, <<0, 0, 0>>)

\* The sums report's call of get_centroid divides by (lines 94-95), over
\* the 8 gathered local centroids.
GlobalSums ==
  CentroidSums(NP, Gather, LocalCentroids, 0,
               [sum_n_body |-> 0, mass |-> 0, x |-> <<0, 0, 0>>, v |-> <<0, 0, 0>>])

\* C13: the local centroid of an empty LocalStore is the zero value, no
\* division made; an empty rank adds nothing to the sums of the global
\* centroid; and no component of a reported centroid comes out of a
\* division by zero: the divisors of lines 94-95 are nonzero in report.
C13_NoDivisionByZero ==
  /\ \A r \in Units :
       n_body[r] = 0 =>
         /\ LocalCentroids[r] = ZeroCentroid
         /\ \A k \in Dims :
              /\ FMul(LocalCentroids[r].x[k], LocalCentroids[r].mass) = 0
              /\ FMul(LocalCentroids[r].v[k], Gather[r] * Res) = 0
  /\ JustReported =>
       /\ GlobalSums.mass # 0
       /\ GlobalSums.sum_n_body # 0
       /\ \A k \in Dims :
            (\A r \in Units : \A i \in 0 .. (n_body[r] - 1) :
               ~IsNaN(bodies[r][i].x[k]) /\ ~IsNaN(bodies[r][i].v[k]))
              => ~IsNaN(LastReport.x[k]) /\ ~IsNaN(LastReport.v[k])

\* A squared distance d, in multiples of 1/Res^2, above EPSILON and below
\* CUTOFF_SQR.
BetweenEpsilonAndCutoff(d) ==
  d > (EPSILON_NUM * Res * Res) \div EPSILON_DEN /\ d < CUTOFF_SQR

\* C14: shouldSend sets transmit[o] = 1 exactly when the squared distance d
\* accumulated over the axes whose sign disagrees with octant o is above
\* EPSILON and below CUTOFF_SQR, a d below 1 included; so the ghost send
\* count of rank r for octant o is the number of its bodies with such a d.
C14_SendIffBetween ==
  pc = "ghost_x" =>
    \A r \in Units, o \in Units :
      /\ \A i \in 0 .. (n_body[r] - 1) :
           shouldSend(bodies[r][i].x)[o] = 1
             <=> BetweenEpsilonAndCutoff(Disagree(bodies[r][i].x, o))
      /\ send_count[r][o] =
           Cardinality({i \in 0 .. (n_body[r] - 1) :
                          BetweenEpsilonAndCutoff(Disagree(bodies[r][i].x, o))})

\* The indices of rank s's bodies marked for octant d in the round just
\* exchanged, in array order: by shouldSend in the ghost round, by exile in
\* the migration round.
MarkedFor(s, d) ==
  SelectSeq([i \in 1 .. n_body[s] |-> i - 1],
            LAMBDA i : IF pc = "force" THEN shouldSend(bodies[s][i].x)[d] = 1
                       ELSE exile[s][i] = d)

\* The body rank s buffers for a marked index: a copy in the ghost round.
Buffered(s, i) ==
  IF pc = "force" THEN [bodies[s][i] EXCEPT !.copy = TRUE] ELSE bodies[s][i]

\* C15: after the exchange of a ghost or a migration round, every rank s
\* holds a count for each of the 8 destinations, the count for d being the
\* number of bodies s buffered for d in this round; recv_count[s] on rank d
\* is send_count[d] on rank s; the send and receive offsets are the prefix
\* sums of the counts; and what d received from s is exactly the bodies s
\* buffered for d, in order.
C15_CountsOffsetsPayload ==
  pc \in {"force", "merge"} =>
    \A s \in Units :
      /\ DOMAIN send_count[s] = Units /\ DOMAIN recv_count[s] = Units
      /\ send_displ[s] = Displ(send_count[s])
      /\ recv_displ[s] = Displ(recv_count[s])
      /\ \A d \in Units :
           LET m == MarkedFor(s, d)
           IN /\ send_count[s][d] = Len(m)
              /\ recv_count[d][s] = send_count[s][d]
              /\ \A j \in 1 .. Len(m) :
                   /\ sendbuf[s][send_displ[s][d] + j - 1] = Buffered(s, m[j])
                   /\ recvbuf[d][recv_displ[d][s] + j - 1] = Buffered(s, m[j])

\* C15's case: after a migration exchange that moved a body between two
\* ranks, in a step whose ghost round had delivered a ghost and in which
\* some rank sent nothing at all.
C15_Witness ==
  /\ pc = "merge"
  /\ \E s \in Units, d \in Units : send_count[s][d] > 0 /\ recv_count[d][s] > 0
  /\ \E r \in Units : \E k \in 1 .. Len(log[r]) : log[r][k].ghost
  /\ \E s \in Units : send_count[s] = ZeroCounts

\* C16: the force accumulated on every local body is computed from the
\* positions the other local bodies and the ghosts had at the start of the
\* step: every call of compute_force_as_vector adds what the start-of-step
\* bodies give, so no body is moved before the accumulation has used it and
\* the order of the LocalStore does not matter.
C16_ForcesFromStartPositions ==
  pc = "migr_prep" =>
    \A r \in Units : \A k \in 1 .. Len(log[r]) :
      log[r][k].kind # "self" =>
        log[r][k].now =
          compute_force_as_vector(StartOf(log[r][k].on), StartOf(log[r][k].from),
                                  FALSE, log[r][k].was).vec

\* C17: after the initial distribution and before step 0, rank 0's array
\* holds the N loaded bodies in 8 contiguous ranges, the range of octant o
\* holding bodies that get_octant_rank sends to o; every rank r holds
\* exactly the loaded bodies that classify to r, each with its mass,
\* position and velocity; and the 8 populations sum to N.
C17_DistributedByOctant ==
  (pc = "top" /\ t = 0) =>
    /\ send_displ[0] = Displ(n_bodies)
    /\ SumTo(n_bodies, NP) = N
    /\ \A o \in Units : \A j \in 0 .. (n_bodies[o] - 1) :
         get_octant_rank(bodies[0][send_displ[0][o] + j].x) = o
    /\ \A r \in Units :
         /\ n_body[r] = n_bodies[r]
         /\ LocalStore(r) = SelectSeq(bds, LAMBDA b : get_octant_rank(b.x) = r)
    /\ SumTo(n_body, NP) = N

\* C17's case: three bodies distributed, two of them to one rank other than
\* rank 0 and one to another rank.
C17_Witness ==
  /\ pc = "top" /\ t = 0 /\ N = 3
  /\ \E r \in Units \ {0}, q \in Units : r # q /\ n_body[r] = 2 /\ n_body[q] = 1

\* The call sequence a is an initial part of b.
IsPrefix(a, b) == Len(a) <= Len(b) /\ \A i \in 1 .. Len(a) : a[i] = b[i]

\* One step's calls: both rounds of barrier, counts, barrier, payload, barrier.
StepCalls ==
  <<"Barrier", "Alltoall", "Barrier", "Alltoallv", "Barrier",
    "Barrier", "Alltoall", "Barrier", "Alltoallv", "Barrier">>

\* The calls of a complete run of K steps from step counter tk on.
RECURSIVE RunCalls(_)
RunCalls(tk) ==
  IF tk >= K THEN <<"Gather", "Gather">>
  ELSE (IF tk % TIME_INTERVAL = 0 THEN <<"Gather", "Gather">> ELSE <<>>)
         \o StepCalls \o RunCalls(tk + 1)

AllDone == \A r \in Units : rank_pc[r] = "done"
SomeCrashed == \E r \in Units : rank_pc[r] = "crashed"

\* C18: the sequences of collective calls of any two ranks agree as far as
\* both have got, whatever n_body holds, so every call a rank stands in is
\* the call the others issue at that place; a rank that is done has issued
\* the calls of the distribution, of K whole steps and of the final report;
\* and unless a rank dies every rank eventually is done.
C18_SameCallsAllComplete ==
  /\ [](\A r, s \in Units : IsPrefix(calls[r], calls[s]) \/ IsPrefix(calls[s], calls[r]))
  /\ [](\A r \in Units : rank_pc[r] = "done" =>
          /\ rank_t[r] = K
          /\ calls[r] = <<"Bcast", "Bcast", "Bcast", "Scatter", "Scatterv", "Barrier">>
                          \o RunCalls(0))
  /\ <>(AllDone \/ SomeCrashed)

\* C18's case: all 8 ranks are done after K > 0 steps, one of them having
\* held a body and the others none.
C18_Witness ==
  /\ AllDone /\ K > 0
  /\ \E r, s \in Units : n_body[r] = 0 /\ n_body[s] > 0

RECURSIVE SeqSum(_)
SeqSum(s) == IF s = <<>> THEN 0 ELSE Head(s) + SeqSum(Tail(s))

\* All bodies held by ranks r .. 7, rank by rank.
RECURSIVE HeldFrom(_)
HeldFrom(r) == IF r >= NP THEN <<>> ELSE LocalStore(r) \o HeldFrom(r + 1)

\* No body holds a NaN or a component beyond Far: the products and
\* quotients of the centroids are then rounded once, to the last place.
AllFinite ==
  \A i \in 1 .. Len(HeldFrom(0)) : \A k \in Dims :
    Mag(HeldFrom(0)[i].x[k]) <= Far /\ Mag(HeldFrom(0)[i].v[k]) <= Far

\* The sums m * x[k] and v[k] over a sequence of bodies.
MomentSum(s, k) == SeqSum([i \in 1 .. Len(s) |-> FMul(s[i].x[k], s[i].mass)])
VelocitySum(s, k) == SeqSum([i \in 1 .. Len(s) |-> s[i].v[k]])
MassSum(s) == SeqSum([i \in 1 .. Len(s) |-> s[i].mass])

\* The centroid taken directly over all bodies: mass-weighted mean position
\* and plain mean velocity.
DirectX(k) == FDiv(MomentSum(HeldFrom(0), k), MassSum(HeldFrom(0)))
DirectV(k) == FDiv(VelocitySum(HeldFrom(0), k) * Res, Len(HeldFrom(0)) * Res * Res)

\* Every local centroid times its weight gives back the local sum: the
\* divisions of lines 94-95 on the ranks were exact.
LocalExact ==
  \A r \in Units : \A k \in Dims :
    /\ FMul(LocalCentroids[r].x[k], LocalCentroids[r].mass) = MomentSum(LocalStore(r), k)
    /\ LocalCentroids[r].v[k] * n_body[r] = VelocitySum(LocalStore(r), k)

IndicesUsed(r) ==
  DOMAIN bodies[r] \cup DOMAIN sendbuf[r] \cup DOMAIN recvbuf[r] \cup DOMAIN exile[r]

\* C20: with N <= MAX_N_BODY, every index of bodies, sendbuf, recvbuf and
\* exile that holds an entry, on every rank and in every step, is below
\* MAX_N_BODY; the ghost send buffer among them.
C20_IndicesBelowCapacity ==
  N <= MAX_N_BODY => \A r \in Units : \A i \in IndicesUsed(r) : i < MAX_N_BODY

\* The arrays other than the send buffer stay within the capacity.
C20_OthersBelowCapacity ==
  N <= MAX_N_BODY =>
    \A r \in Units :
      \A i \in DOMAIN bodies[r] \cup DOMAIN recvbuf[r] \cup DOMAIN exile[r] :
        i < MAX_N_BODY

\* ================================================= src/ps5: MoveBodies
\* One call of MoveBodies after another, its threads one access at a time.
\* A float is a multiple of 1/Res as above; 1/r^3 is kept in multiples of
\* 1/Res^2.
BodyIds == 0 .. (nBodies - 1)
Workers == 1 .. NumThreads

\* Starting positions in [0, 1] and velocities, as main draws them, for the
\* first three bodies; bodies 0 and 2 may coincide.  Any further body
\* starts at rest at LaterPos.
StartPos ==
  {<< <<0, 0, 0>>, <<Res \div 2, 0, 0>>, c >> :
     c \in {<<0, 0, 0>>, <<Res, Res \div 2, Res>>}}
StartVel ==
  {<< a, <<0, Res, 0>>, a >> : a \in {<<0, 0, 0>>, <<Res, 0, Res \div 2>>}}

LaterPos == <<Res \div 2, Res, 0>>

\* The written locations: field f of body i on axis k.  "F" is nbody2's
\* Fx, Fy, Fz; "v" is vx, vy, vz; "x" is x, y, z.
Locs == {<<f, i, k>> : f \in {"F", "v", "x"}, i \in BodyIds, k \in Dims}

IdleThread == [pc |-> "idle", i |-> 0, j |-> 0, F |-> <<0, 0, 0>>]

\* main up to its first call of MoveBodies
InitThreads ==
  /\ N = 0 /\ K = 0 /\ DT = Res /\ bds = <<>>
  /\ BlankRanks
  /\ variant \in {"nbody2", "nbody3"}
  /\ nBodies \in 2 .. MaxBodies
  /\ mb_dt = 1
  /\ \E p \in StartPos, v \in StartVel :
       /\ mb_pos = [i \in 0 .. (nBodies - 1) |-> IF i < 3 THEN p[i + 1] ELSE LaterPos]
       /\ mb_vel = [i \in 0 .. (nBodies - 1) |-> IF i < 3 THEN v[i + 1] ELSE <<0, 0, 0>>]
  /\ Fxyz = <<>>
  /\ region = "off"
  /\ taken = {}
  /\ thr = [w \in Workers |-> IdleThread]
  /\ writers = <<>>
  /\ mb_pos0 = <<>>
  /\ mb_vel0 = <<>>
  /\ seen = <<>>
  /\ mb_step = 0

\* dx*dx + dy*dy + dz*dz + softening, in multiples of 1/Res^2: softening
\* (1e-20) is lost in the sum unless the sum is 0, which is written 0
drSquared(xi, xj) ==
  (xj[1] - xi[1]) * (xj[1] - xi[1]) + (xj[2] - xi[2]) * (xj[2] - xi[2])
    + (xj[3] - xi[3]) * (xj[3] - xi[3])

\* The range of 1/r^3 ends at r = Near: a smaller separation other than 0
\* is evaluated at Near.  At separation 0 the factor is large and finite
\* (1e30) and multiplies dx = 0.
Near == Res \div 10
AtLeastNear(r) == IF r < Near THEN Near ELSE r

\* nbody2 lines 39-40: 1.0f / sqrtf(drSquared), then its cube
drPower23_nbody2(r2) ==
  IF r2 = 0 THEN Big
  ELSE LET drReciRooted == TruncDiv(Res * Res * Res, AtLeastNear(ISqrt(r2)))
       IN MulDiv(MulDiv(drReciRooted, drReciRooted, Res * Res), drReciRooted, Res * Res)

\* nbody3 lines 35-37: sqrtf(drSquared) * drSquared, then its reciprocal
drPower23_nbody3(r2) ==
  IF r2 = 0 THEN Big
  ELSE LET drRooted == AtLeastNear(ISqrt(r2))
           drPower32 == drRooted * (IF r2 < Near * Near THEN Near * Near ELSE r2)
       IN TruncDiv(Res * Res * Res * Res, drPower32 \div Res)

drPower23(r2) ==
  IF variant = "nbody2" THEN drPower23_nbody2(r2) ELSE drPower23_nbody3(r2)

\* nbody2 lines 35-45, nbody3 lines 31-42: what body j adds to the force on
\* body i, from the positions xi and xj
Pair(xi, xj) ==
  LET p == drPower23(drSquared(xi, xj))
  IN [k \in Dims |-> IF xj[k] = xi[k] THEN 0 ELSE MulDiv(xj[k] - xi[k], p, Res * Res)]

\* wr with thread w added to the writers of field f of body i
Logged(wr, f, i, w) ==
  [l \in DOMAIN wr |-> IF l[1] = f /\ l[2] = i THEN wr[l] \cup {w} ELSE wr[l]]

\* Everything SpecThreads leaves alone: the 8 ranks of fserial.
ranks == <<pc, t, N, K, DT, bds, n_body, bodies, n_bodies, send_count,
           send_displ, recv_count, recv_displ, sendbuf, recvbuf, exile,
           centroid, reports, sum, start, log, sync>>

\* main's call of MoveBodies (nbody2 line 123, nbody3 line 120) up to the
\* first parallel region; nbody2 clears Fx, Fy, Fz there (lines 24-26)
MoveBodies ==
  /\ region \in {"off", "done"}
  /\ mb_step < MaxSteps
  /\ mb_step' = mb_step + 1
  /\ region' = "loop1"
  /\ taken' = {}
  /\ Fxyz' = IF variant = "nbody2" THEN [i \in BodyIds |-> <<0, 0, 0>>] ELSE Fxyz
  /\ writers' = [l \in Locs |-> {}]
  /\ mb_pos0' = mb_pos
  /\ mb_vel0' = mb_vel
  /\ seen' = [p \in BodyIds \X BodyIds |-> <<>>]
  /\ UNCHANGED <<variant, nBodies, mb_dt, mb_pos, mb_vel, thr, ranks>>

\* The iterations a thread asking for work may be handed.  With
\* schedule(dynamic) (nbody2 lines 28 and 51, nbody3 line 53) it is the
\* next one in order; nbody3 line 23 names no schedule, which leaves the
\* assignment to the implementation: any iteration not yet handed out.
Schedulable ==
  LET left == BodyIds \ taken
  IN IF variant = "nbody3" /\ region = "loop1" THEN left
     ELSE {i \in left : \A m \in left : i <= m}

\* Thread w starts an iteration of the current loop; nbody3 line 27 clears
\* its private Fx, Fy, Fz.
Take(w) ==
  /\ region \in {"loop1", "loop2"}
  /\ thr[w].pc = "idle"
  /\ \E i \in Schedulable :
       /\ taken' = taken \cup {i}
       /\ thr' = [thr EXCEPT ![w] =
                    [pc |-> IF region = "loop1" THEN "force" ELSE "update",
                     i |-> i, j |-> 0, F |-> <<0, 0, 0>>]]
  /\ UNCHANGED <<variant, nBodies, mb_dt, mb_pos, mb_vel, Fxyz, region,
                 writers, mb_pos0, mb_vel0, seen, mb_step, ranks>>

\* One pass of the loop over j (nbody2 lines 32-46, nbody3 lines 29-43):
\* thread w reads the positions of its i and of j and adds to Fx[i], Fy[i],
\* Fz[i] (nbody2) or to its private Fx, Fy, Fz (nbody3).
Accumulate(w) ==
  LET i == thr[w].i
      j == thr[w].j
      add == Pair(mb_pos[i], mb_pos[j])
      last == j + 1 >= nBodies
  IN /\ thr[w].pc = "force"
     /\ seen' = [seen EXCEPT ![<<i, j>>] = <<mb_pos[i], mb_pos[j]>>]
     /\ IF variant = "nbody2"
        THEN /\ Fxyz' = [Fxyz EXCEPT ![i] = [k \in Dims |-> FAdd(@[k], add[k])]]
             /\ writers' = Logged(writers, "F", i, w)
             /\ thr' = [thr EXCEPT ![w].j = j + 1,
                                   ![w].pc = IF last THEN "idle" ELSE "force"]
        ELSE /\ thr' = [thr EXCEPT ![w].j = j + 1,
                                   ![w].F = [k \in Dims |-> FAdd(@[k], add[k])],
                                   ![w].pc = IF last THEN "kick" ELSE "force"]
             /\ UNCHANGED <<Fxyz, writers>>
     /\ UNCHANGED <<variant, nBodies, mb_dt, mb_pos, mb_vel, region, taken,
                    mb_pos0, mb_vel0, mb_step, ranks>>

\* nbody3 lines 46-48: thread w adds dt * F to the velocity of its body i
KickV(w) ==
  LET i == thr[w].i
  IN /\ thr[w].pc = "kick"
     /\ mb_vel' = [mb_vel EXCEPT ![i] = [k \in Dims |-> FAdd(@[k], FMul(mb_dt, thr[w].F[k]))]]
     /\ writers' = Logged(writers, "v", i, w)
     /\ thr' = [thr EXCEPT ![w].pc = "idle"]
     /\ UNCHANGED <<variant, nBodies, mb_dt, mb_pos, Fxyz, region, taken,
                    mb_pos0, mb_vel0, seen, mb_step, ranks>>

\* One iteration of the second loop: nbody2 lines 54-61 (velocity from
\* Fx[i], Fy[i], Fz[i], then position), nbody3 lines 56-58 (position)
Update(w) ==
  LET i == thr[w].i
      v1 == IF variant = "nbody2"
            THEN [k \in Dims |-> FAdd(mb_vel[i][k], FMul(mb_dt, Fxyz[i][k]))]
            ELSE mb_vel[i]
  IN /\ thr[w].pc = "update"
     /\ mb_vel' = [mb_vel EXCEPT ![i] = v1]
     /\ mb_pos' = [mb_pos EXCEPT ![i] = [k \in Dims |-> FAdd(@[k], FMul(v1[k], mb_dt))]]
     /\ writers' = IF variant = "nbody2"
                   THEN Logged(Logged(writers, "v", i, w), "x", i, w)
                   ELSE Logged(writers, "x", i, w)
     /\ thr' = [thr EXCEPT ![w].pc = "idle"]
     /\ UNCHANGED <<variant, nBodies, mb_dt, Fxyz, region, taken, mb_pos0,
                    mb_vel0, seen, mb_step, ranks>>

\* The end of a loop with nowait: a thread goes on when no iteration is left.
Joined_nowait == taken = BodyIds

\* The implied barrier at the end of a parallel for region (nbody2 lines 47
\* and 62, nbody3 lines 49 and 59): every iteration is handed out and every
\* thread has finished its own.  The omp barrier of nbody2 line 49 and
\* nbody3 line 51 stands outside any parallel region, where the team is the
\* one thread that meets it: it holds nobody.
Joined == taken = BodyIds /\ \A w \in Workers : thr[w].pc = "idle"

\* The master goes on past the end of the current parallel region.
Join ==
  /\ region \in {"loop1", "loop2"}
  /\ Joined
  /\ region' = IF region = "loop1" THEN "loop2" ELSE "done"
  /\ taken' = {}
  /\ UNCHANGED <<variant, nBodies, mb_dt, mb_pos, mb_vel, Fxyz, thr, writers,
                 mb_pos0, mb_vel0, seen, mb_step, ranks>>

NextThreads ==
  \/ MoveBodies
  \/ Join
  \/ \E w \in Workers : Take(w) \/ Accumulate(w) \/ KickV(w) \/ Update(w)

SpecThreads == InitThreads /\ [][NextThreads]_vars

\* ----------------------------------------------------- claims, SpecThreads
\* The force on body i summed over j = 0 .. nBodies - 1 in that order, from
\* the positions p.
RECURSIVE ForceFrom(_, _, _, _)
ForceFrom(p, i, j, acc) ==
  IF j >= nBodies THEN acc
  ELSE ForceFrom(p, i, j + 1, [k \in Dims |-> acc[k] + Pair(p[i], p[j])[k]])

\* The velocity and the position one call of MoveBodies makes of body i.
VelAfter(i) ==
  [k \in Dims |-> mb_vel0[i][k] + FMul(mb_dt, ForceFrom(mb_pos0, i, 0, <<0, 0, 0>>)[k])]
PosAfter(i) == [k \in Dims |-> mb_pos0[i][k] + FMul(VelAfter(i)[k], mb_dt)]

Accumulating == {w \in Workers : thr[w].pc \in {"force", "kick"}}

\* Some position is written by this step.
PositionWritten ==
  \/ mb_pos' # mb_pos
  \/ \E l \in DOMAIN writers :
       l[1] = "x" /\ l \in DOMAIN writers' /\ writers'[l] \ writers[l] # {}

\* C21: in both variants, during every call of MoveBodies, no force
\* accumulator and no field of a body is written by two threads; a position
\* is written only when no thread is accumulating forces any more; and every
\* pair (i, j) is computed from the positions the call started with, so that
\* the call leaves v0 + dt * F(x0) and x0 + dt * v for every body.
C21_NoSharedWritesForcesFromOldPositions ==
  /\ [](region # "off" =>
          /\ \A l \in Locs : Cardinality(writers[l]) <= 1
          /\ \A p \in BodyIds \X BodyIds :
               seen[p] # <<>> => seen[p] = <<mb_pos0[p[1]], mb_pos0[p[2]]>>
          /\ region = "done" =>
               \A i \in BodyIds : mb_vel[i] = VelAfter(i) /\ mb_pos[i] = PosAfter(i))
  /\ [][PositionWritten => (region = "loop2" /\ Accumulating = {})]_vars

\* C21's case: the second call of MoveBodies is complete for three bodies,
\* both threads have written fields, bodies have moved, and forces were
\* nonzero.
C21_Witness ==
  /\ region = "done" /\ mb_step = MaxSteps /\ nBodies = 3
  /\ \E l, m \in Locs : writers[l] # {} /\ writers[m] # {} /\ writers[l] # writers[m]
  /\ \E i \in BodyIds : mb_pos[i] # mb_pos0[i] /\ mb_vel[i] # mb_vel0[i]

=============================================================================
